---------------------------- MODULE Spec2Model ----------------------------
(*************************************************************************)
(* Login test runners: the browser runner (automated_login_test.py,     *)
(* class AILoginTester and main) and the simulated runner                *)
(* (login_test.py, class SimulatedAILoginTester and main), and the two   *)
(* sort functions of snippets.py.                                        *)
(*                                                                       *)
(* Strings that the code inspects character by character (the simulated *)
(* runner's credentials) are sequences of one-character strings; strings *)
(* that are only copied are TLA+ strings.  Python's None is the string   *)
(* "None".  Durations are integers: hundredths of a second in the        *)
(* browser runner (round(..., 2)), milliseconds in the simulated runner  *)
(* (round(..., 3)).  The wall-clock `timestamp` field of a record is not *)
(* part of the state.  print is assumed not to raise, except in          *)
(* SpecMain, where statements of main's try block may raise.             *)
(*************************************************************************)
EXTENDS Integers, Sequences, FiniteSets, TLC

VARIABLES
    runner,        \* which script runs: "browser", "simulated" or "snippets"
    pc,            \* position of main
    driver,        \* AILoginTester.driver: "None" or "chrome"
    test_results,  \* self.test_results
    envlog,        \* what the page driver did for each executed test case
    analytics,     \* value returned by generate_ai_analytics in this run
    ret,           \* what main returned
    idx,           \* test cases the loop of run_ai_test_suite has executed
    call,          \* a single call of a per-test operation and its result
    calls          \* log of the calls made so far of the operations a
                   \* property counts: the classifiers, generate_ai_analytics
                   \* and cleanup

vars == <<runner, pc, driver, test_results, envlog, analytics, ret, idx, call,
          calls>>

None == "None"

\* The value of `analytics` before generate_ai_analytics has returned, and
\* the value standing for an exception it raised.
NoReport == [absent |-> TRUE]
ZeroDivisionError == [raised |-> "ZeroDivisionError"]
Raised(a) == "raised" \in DOMAIN a

-----------------------------------------------------------------------------
(* Browser runner: the catalog                                             *)

\* AILoginTester.generate_test_cases
generate_test_cases ==
    << [name |-> "Valid Login - Correct Credentials",
        username |-> "tomsmith", password |-> "SuperSecretPassword!",
        expected_result |-> "success",
        description |-> "Test successful login with valid credentials"],
       [name |-> "Invalid Login - Wrong Username",
        username |-> "wronguser", password |-> "SuperSecretPassword!",
        expected_result |-> "failure",
        description |-> "Test login failure with incorrect username"],
       [name |-> "Invalid Login - Wrong Password",
        username |-> "tomsmith", password |-> "wrongpassword",
        expected_result |-> "failure",
        description |-> "Test login failure with incorrect password"],
       [name |-> "Invalid Login - Empty Credentials",
        username |-> "", password |-> "",
        expected_result |-> "failure",
        description |-> "Test login failure with empty credentials"],
       [name |-> "Invalid Login - SQL Injection Attempt",
        username |-> "admin' OR '1'='1", password |-> "password",
        expected_result |-> "failure",
        description |-> "Test security against SQL injection"],
       [name |-> "Invalid Login - Special Characters",
        username |-> "user@#$%", password |-> "pass@#$%",
        expected_result |-> "failure",
        description |-> "Test handling of special characters"] >>

-----------------------------------------------------------------------------
(* Browser runner: what the page driver can do during one test case        *)

\* The three success locators and the three failure locators, in list order.
success_indicators == <<".flash.success", "Logout", "[href='/logout']">>
failure_indicators == <<".flash.error", "//*[contains(text(), 'invalid')]",
                        "//*[contains(text(), 'Your username is invalid')]">>

\* What find_element / is_displayed do for one locator:
\*   "absent"    find_element raises NoSuchElementException
\*   "hidden"    the element is found and is_displayed() is False
\*   "displayed" the element is found and is_displayed() is True
\*   "raises"    find_element, is_displayed or text raises another exception
IndicatorStates == {"absent", "hidden", "displayed", "raises"}

\* The steps before the scans that can raise (get, wait for the username
\* field, the password field, the submit button), or "ok".
DriverSteps == {"ok", "get", "username", "password", "click"}

\* The visible text of each failure indicator's element.
FailureTexts ==
    << {"", "Your password is invalid!"},
       {"Your username is invalid!"},
       {"Your username is invalid! x"} >>

\* Measured durations of one call, in hundredths of a second.
BrowserElapsed == {200, 550}

TextOf(env, k) ==
    IF k = 1 THEN env.text1
    ELSE CHOOSE t \in FailureTexts[k] : TRUE

\* str(e) of the exception each faulting step raises.
FaultMessage(where) ==
    CASE where = "nodriver" -> "'NoneType' object has no attribute 'get'"
      [] where = "get"      -> "WebDriverException"
      [] where = "username" -> "TimeoutException"
      [] where = "password" -> "NoSuchElementException: password"
      [] where = "click"    -> "NoSuchElementException: submit"
      [] OTHER              -> "StaleElementReferenceException"

\* The scan loops of execute_login_test (for locator in ...: try / if
\* displayed: break / except NoSuchElementException: continue) over the
\* states st of three locators, from position k: the index of the first
\* locator that is displayed, 0 when the loop ends without a match, -1 when
\* a locator raises before a match.
RECURSIVE ScanFrom(_, _)
ScanFrom(st, k) ==
    IF k > 3 THEN 0
    ELSE IF st[k] = "displayed" THEN k
    ELSE IF st[k] = "raises" THEN -1
    ELSE ScanFrom(st, k + 1)

\* Mutant: the loop has no break, so the last displayed locator wins.
ScanLast(st) ==
    IF \E k \in 1..3 : st[k] = "raises" THEN -1
    ELSE IF \E k \in 1..3 : st[k] = "displayed"
    THEN CHOOSE k \in 1..3 : st[k] = "displayed"
                              /\ \A j \in (k + 1)..3 : st[j] # "displayed"
    ELSE 0

Scan(st) == ScanFrom(st, 1)

\* Where, if anywhere, the try block of execute_login_test raises.
FaultOf(drv, env) ==
    IF drv = None THEN "nodriver"
    ELSE IF env.step # "ok" THEN env.step
    ELSE IF Scan(env.succ) = -1 THEN "success_scan"
    ELSE IF Scan(env.fail) = -1 THEN "failure_scan"
    ELSE "none"

\* The result dict as execute_login_test creates it
InitialResult(test_case) ==
    [ test_name        |-> test_case.name,
      description      |-> test_case.description,
      username         |-> test_case.username,
      password         |-> test_case.password,
      expected_result  |-> test_case.expected_result,
      actual_result    |-> None,
      status           |-> "FAIL",
      execution_time   |-> 0,
      error_message    |-> None,
      screenshot_taken |-> FALSE ]

\* Mutant: failure evidence is consulted before success evidence.
DetermineActualFailureFirst(login_successful, error_found) ==
    IF error_found THEN "failure"
    ELSE IF login_successful THEN "success"
    ELSE "unknown"

\* Mutant: a page with no indicator counts as a failed login.
DetermineActualNoUnknown(login_successful, error_found) ==
    IF login_successful THEN "success" ELSE "failure"

\* "Determine test result"
DetermineActual(login_successful, error_found) ==
    IF login_successful THEN "success"
    ELSE IF error_found THEN "failure"
    ELSE "unknown"

\* Mutant: the status reports whether the login succeeded.
ValidateIgnoresExpected(actual_result, expected_result) ==
    IF actual_result = "success" THEN "PASS" ELSE "FAIL"

\* "Validate against expected result"
Validate(actual_result, expected_result) ==
    IF actual_result = expected_result THEN "PASS" ELSE "FAIL"

\* Mutant: the except clause records the message and leaves the status.
OnExceptionKeepsStatus(result, fault) ==
    [result EXCEPT !.error_message = FaultMessage(fault)]

\* except Exception as e
OnException(result, fault) ==
    [result EXCEPT !.status = "ERROR", !.error_message = FaultMessage(fault)]

\* Mutant: the failure indicators are scanned only when no success indicator
\* matched.
execute_login_test_SkipsFailureScan(drv, test_case, env) ==
    LET result0          == InitialResult(test_case)
        fault            == FaultOf(drv, env)
        login_successful == Scan(env.succ) > 0
        error_found      == ~login_successful /\ Scan(env.fail) > 0
        result1 == IF error_found
                   THEN [result0 EXCEPT !.error_message = TextOf(env, Scan(env.fail))]
                   ELSE result0
        actual  == DetermineActual(login_successful, error_found)
        result2 == [result1 EXCEPT
                       !.actual_result = actual,
                       !.status = Validate(actual, test_case.expected_result)]
        result3 == OnException(result0, fault)
    IN  [ (IF fault = "none" THEN result2 ELSE result3)
            EXCEPT !.execution_time = env.elapsed ]

\* AILoginTester.execute_login_test
execute_login_test(drv, test_case, env) ==
    LET result0          == InitialResult(test_case)
        fault            == FaultOf(drv, env)
        login_successful == Scan(env.succ) > 0
        error_found      == Scan(env.fail) > 0
        result1 == IF error_found
                   THEN [result0 EXCEPT !.error_message = TextOf(env, Scan(env.fail))]
                   ELSE result0
        actual  == DetermineActual(login_successful, error_found)
        result2 == [result1 EXCEPT
                       !.actual_result = actual,
                       !.status = Validate(actual, test_case.expected_result)]
        \* When the try block raises, nothing has been stored in the result
        \* yet: a step or scan that raises does so before the failure text is
        \* stored and before the result is determined.
        result3 == OnException(result0, fault)
    IN  [ (IF fault = "none" THEN result2 ELSE result3)
            EXCEPT !.execution_time = env.elapsed ]

-----------------------------------------------------------------------------
(* Simulated runner: strings as sequences of characters                    *)

LowerLetters == <<"a","b","c","d","e","f","g","h","i","j","k","l","m",
                  "n","o","p","q","r","s","t","u","v","w","x","y","z">>
UpperLetters == <<"A","B","C","D","E","F","G","H","I","J","K","L","M",
                  "N","O","P","Q","R","S","T","U","V","W","X","Y","Z">>

\* str.upper, one character
UpperChar(c) ==
    IF \E i \in 1..Len(LowerLetters) : LowerLetters[i] = c
    THEN UpperLetters[CHOOSE i \in 1..Len(LowerLetters) : LowerLetters[i] = c]
    ELSE c

\* str.upper
Upper(s) == [i \in 1..Len(s) |-> UpperChar(s[i])]

\* sub in s
Contains(s, sub) ==
    \E i \in 1..(Len(s) - Len(sub) + 1) : SubSeq(s, i, i + Len(sub) - 1) = sub

Whitespace == {" ", "\t", "\n"}

\* str.strip
Strip(s) ==
    LET lead  == Cardinality({i \in 1..Len(s) : \A j \in 1..i : s[j] \in Whitespace})
        trail == Cardinality({i \in 1..Len(s) : \A j \in i..Len(s) : s[j] \in Whitespace})
    IN  IF lead = Len(s) THEN <<>>
        ELSE SubSeq(s, lead + 1, Len(s) - trail)

\* c * n
Repeat(c, n) == [i \in 1..n |-> c]

ValidUsername == <<"t","e","s","t","u","s","e","r","@","e","x","a","m","p","l","e",".","c","o","m">>
ValidPassword == <<"V","a","l","i","d","P","a","s","s","1","2","3","!">>

\* SimulatedAILoginTester.generate_intelligent_test_cases
generate_intelligent_test_cases ==
    << [id |-> 1, name |-> "Valid Login - Standard User",
        username |-> ValidUsername, password |-> ValidPassword,
        expected |-> "success", category |-> "positive",
        risk_level |-> "low", ai_priority |-> "high"],
       [id |-> 2, name |-> "Invalid Login - Wrong Password",
        username |-> ValidUsername, password |-> <<"w","r","o","n","g","p","a","s","s","w","o","r","d">>,
        expected |-> "failure", category |-> "negative",
        risk_level |-> "medium", ai_priority |-> "high"],
       [id |-> 3, name |-> "Invalid Login - Wrong Username",
        username |-> <<"w","r","o","n","g","u","s","e","r","@","e","x","a","m","p","l","e",".","c","o","m">>, password |-> ValidPassword,
        expected |-> "failure", category |-> "negative",
        risk_level |-> "medium", ai_priority |-> "high"],
       [id |-> 4, name |-> "Security Test - SQL Injection",
        username |-> <<"a","d","m","i","n","'"," ","O","R"," ","'","1","'","=","'","1","'"," ","-","-">>, password |-> <<"p","a","s","s","w","o","r","d">>,
        expected |-> "failure", category |-> "security",
        risk_level |-> "critical", ai_priority |-> "critical"],
       [id |-> 5, name |-> "Edge Case - Empty Fields",
        username |-> <<>>, password |-> <<>>,
        expected |-> "failure", category |-> "edge_case",
        risk_level |-> "low", ai_priority |-> "medium"],
       [id |-> 6, name |-> "Edge Case - Very Long Input",
        username |-> Repeat("a", 1000) \o <<"@","e","x","a","m","p","l","e",".","c","o","m">>,
        password |-> Repeat("b", 1000),
        expected |-> "failure", category |-> "edge_case",
        risk_level |-> "medium", ai_priority |-> "medium"] >>

\* Mutant: an unregistered but well-formed credential pair is left undecided.
ai_determine_result_Undecided(test_case) ==
    LET username == test_case.username
        password == test_case.password
    IN  IF username = ValidUsername /\ password = ValidPassword
        THEN "success"
        ELSE IF \/ Contains(username, <<"'">>)
                \/ Contains(Upper(username), <<"O", "R">>)
                \/ Contains(username, <<"-", "-">>)
                \/ Strip(username) = <<>> \/ Strip(password) = <<>>
                \/ Len(username) > 255 \/ Len(password) > 255
        THEN "failure"
        ELSE "unknown"

\* Mutant: after a recorded attempt the account is locked.
ai_determine_result_Lockout(test_case) ==
    IF Len(test_results) > 0 THEN "failure"
    ELSE IF test_case.username = ValidUsername /\ test_case.password = ValidPassword
    THEN "success"
    ELSE "failure"

\* Mutant: the valid username alone is accepted.
ai_determine_result_UsernameOnly(test_case) ==
    IF test_case.username = ValidUsername THEN "success" ELSE "failure"

\* SimulatedAILoginTester.ai_determine_result
ai_determine_result(test_case) ==
    LET username == test_case.username
        password == test_case.password
    IN  IF username = ValidUsername /\ password = ValidPassword
        THEN "success"
        ELSE IF \/ Contains(username, <<"'">>)
                \/ Contains(Upper(username), <<"O", "R">>)
                \/ Contains(username, <<"-", "-">>)
        THEN "failure"
        ELSE IF Strip(username) = <<>> \/ Strip(password) = <<>>
        THEN "failure"
        ELSE IF Len(username) > 255 \/ Len(password) > 255
        THEN "failure"
        ELSE "failure"

Min(a, b) == IF a <= b THEN a ELSE b
Max(a, b) == IF a >= b THEN a ELSE b

\* SimulatedAILoginTester.calculate_ai_confidence, in hundredths
calculate_ai_confidence(test_case, actual_result) ==
    LET base_confidence ==
            IF test_case.category = "edge_case" THEN 80
            ELSE IF test_case.category = "security" THEN 95
            ELSE 85
    IN  IF actual_result = test_case.expected
        THEN Min(base_confidence + 10, 100)
        ELSE Max(base_confidence - 20, 50)

\* time.sleep(min(0.5 + len(username) * 0.001, 2.0)), in milliseconds
SleepMs(test_case) == Min(500 + Len(test_case.username), 2000)

\* SimulatedAILoginTester.simulate_login_attempt; overhead is the measured
\* time beyond the sleep, in milliseconds.
simulate_login_attempt(test_case, overhead) ==
    LET actual_result == ai_determine_result(test_case)
    IN  [ test_id         |-> test_case.id,
          test_name       |-> test_case.name,
          category        |-> test_case.category,
          username        |-> IF Len(test_case.username) > 50
                              THEN SubSeq(test_case.username, 1, 50) \o <<".", ".", ".">>
                              ELSE test_case.username,
          expected_result |-> test_case.expected,
          actual_result   |-> actual_result,
          status          |-> IF actual_result = test_case.expected
                              THEN "PASS" ELSE "FAIL",
          execution_time  |-> SleepMs(test_case) + overhead,
          risk_level      |-> test_case.risk_level,
          ai_confidence   |-> calculate_ai_confidence(test_case, actual_result) ]

-----------------------------------------------------------------------------
(* Analytics                                                               *)

RECURSIVE SumTimes(_)
SumTimes(rs) ==
    IF rs = <<>> THEN 0 ELSE rs[1].execution_time + SumTimes(Tail(rs))

\* Mutant: every record that did not pass counts as failed.
CountStatusNonPass(rs, st) ==
    IF st = "FAIL"
    THEN Cardinality({i \in 1..Len(rs) : rs[i].status # "PASS"})
    ELSE Cardinality({i \in 1..Len(rs) : rs[i].status = st})

CountStatus(rs, st) == Cardinality({i \in 1..Len(rs) : rs[i].status = st})

\* Mutant: the quotient is truncated.
RoundDivDown(n, d) == n \div d

\* round(n / d) for n >= 0, d > 0: to the nearest integer, ties to even
RoundDiv(n, d) ==
    LET q == n \div d
        r == n % d
    IN  IF 2 * r < d THEN q
        ELSE IF 2 * r > d THEN q + 1
        ELSE IF q % 2 = 0 THEN q ELSE q + 1

\* "injection" in name.lower() or "special" in name.lower(), for the names
\* of the browser catalog
IsSecurityName(name) ==
    name \in {"Invalid Login - SQL Injection Attempt",
              "Invalid Login - Special Characters"}

\* The success-rate insight of lines 253-258 of automated_login_test.py
BrowserRateInsight(passed_tests, total_tests) ==
    IF total_tests > 0 /\ passed_tests = total_tests
    THEN <<"Perfect test execution - all scenarios handled correctly">>
    ELSE IF total_tests > 0 /\ passed_tests * 100 >= 80 * total_tests
    THEN <<"Good test coverage with high success rate">>
    ELSE <<"Some test scenarios may need attention">>

\* The execution-time insight of lines 260-263; rs is not empty
BrowserTimeInsight(rs) ==
    IF SumTimes(rs) < 300 * Len(rs)
    THEN <<"Fast execution times indicate efficient test design">>
    ELSE IF SumTimes(rs) > 500 * Len(rs)
    THEN <<"Consider optimizing test execution speed">>
    ELSE <<>>

\* Mutant: a security test that does not pass is reported too.
BrowserSecurityInsightWarns(rs) ==
    LET security_tests == {i \in 1..Len(rs) : IsSecurityName(rs[i].test_name)}
    IN  IF security_tests # {} /\ \A i \in security_tests : rs[i].status = "PASS"
        THEN <<"Security tests passed - application shows good input validation">>
        ELSE IF security_tests # {}
        THEN <<"Security vulnerabilities may exist">>
        ELSE <<>>

\* The security analysis of lines 265-268
BrowserSecurityInsight(rs) ==
    LET security_tests == {i \in 1..Len(rs) : IsSecurityName(rs[i].test_name)}
    IN  IF security_tests # {} /\ \A i \in security_tests : rs[i].status = "PASS"
        THEN <<"Security tests passed - application shows good input validation">>
        ELSE <<>>

\* AILoginTester.generate_ai_analytics: the report, or the exception raised.
\* success_rate is in hundredths of a percent, times in hundredths of a second.
browser_generate_ai_analytics(rs, total_time) ==
    LET total_tests  == Len(rs)
        passed_tests == CountStatus(rs, "PASS")
        failed_tests == CountStatus(rs, "FAIL")
        error_tests  == CountStatus(rs, "ERROR")
    IN  IF total_tests = 0 THEN ZeroDivisionError
        ELSE [ total_tests        |-> total_tests,
               passed             |-> passed_tests,
               failed             |-> failed_tests,
               errors             |-> error_tests,
               success_rate       |-> RoundDiv(passed_tests * 10000, total_tests),
               avg_execution_time |-> RoundDiv(SumTimes(rs), total_tests),
               total_time         |-> total_time,
               insights           |-> BrowserRateInsight(passed_tests, total_tests)
                                          \o BrowserTimeInsight(rs)
                                          \o BrowserSecurityInsight(rs) ]

\* Mutant: `passed` counts every record of the label.
BreakdownCountsAll(rs, field) ==
    LET labels == {rs[i][field] : i \in 1..Len(rs)}
    IN  [l \in labels |->
            [ total  |-> Cardinality({i \in 1..Len(rs) : rs[i][field] = l}),
              passed |-> Cardinality({i \in 1..Len(rs) : rs[i][field] = l}) ]]

\* The category and risk loops of lines 205-223: label -> {total, passed}
Breakdown(rs, field) ==
    LET labels == {rs[i][field] : i \in 1..Len(rs)}
    IN  [l \in labels |->
            [ total  |-> Cardinality({i \in 1..Len(rs) : rs[i][field] = l}),
              passed |-> Cardinality({i \in 1..Len(rs) :
                                         rs[i][field] = l /\ rs[i].status = "PASS"}) ]]

\* Mutant: the tiers use > where the code uses >=.
SimRateInsightStrict(passed, total_tests) ==
    IF total_tests > 0 /\ passed = total_tests
    THEN <<"Perfect execution - All test scenarios handled correctly">>
    ELSE IF total_tests > 0 /\ passed * 100 > 90 * total_tests
    THEN <<"Excellent coverage - High reliability demonstrated">>
    ELSE IF total_tests > 0 /\ passed * 100 > 75 * total_tests
    THEN <<"Good performance - Minor issues detected">>
    ELSE <<"Several failures detected - Review required">>

\* The success-rate insight of lines 228-235; success_rate is
\* passed / total_tests * 100, or 0 for an empty list.
SimRateInsight(passed, total_tests) ==
    IF total_tests > 0 /\ passed = total_tests
    THEN <<"Perfect execution - All test scenarios handled correctly">>
    ELSE IF total_tests > 0 /\ passed * 100 >= 90 * total_tests
    THEN <<"Excellent coverage - High reliability demonstrated">>
    ELSE IF total_tests > 0 /\ passed * 100 >= 75 * total_tests
    THEN <<"Good performance - Minor issues detected">>
    ELSE <<"Several failures detected - Review required">>

\* Mutant: one passing security record is enough.
SimSecurityInsightAny(rs) ==
    LET security_tests == {i \in 1..Len(rs) : rs[i].category = "security"}
    IN  IF \E i \in security_tests : rs[i].status = "PASS"
        THEN <<"Security tests passed - Strong input validation">>
        ELSE IF security_tests # {}
        THEN <<"Security vulnerabilities may exist">>
        ELSE <<>>

\* The security insight of lines 238-242
SimSecurityInsight(rs) ==
    LET security_tests == {i \in 1..Len(rs) : rs[i].category = "security"}
    IN  IF security_tests # {} /\ \A i \in security_tests : rs[i].status = "PASS"
        THEN <<"Security tests passed - Strong input validation">>
        ELSE IF security_tests # {}
        THEN <<"Security vulnerabilities may exist">>
        ELSE <<>>

\* Mutant: the boundaries 1.0 and 3.0 fall in the lower tier.
SimTimeInsightInclusive(rs) ==
    IF SumTimes(rs) <= 1000 * Len(rs)
    THEN <<"Excellent response times - Optimized performance">>
    ELSE IF SumTimes(rs) <= 3000 * Len(rs)
    THEN <<"Good response times - Acceptable performance">>
    ELSE <<"Slow response times - Performance optimization needed">>

\* The performance insight of lines 246-251 for a non-empty list; avg_time
\* is sum / len, compared here as sum against threshold * len.
SimTimeInsight(rs) ==
    IF SumTimes(rs) < 1000 * Len(rs)
    THEN <<"Excellent response times - Optimized performance">>
    ELSE IF SumTimes(rs) < 3000 * Len(rs)
    THEN <<"Good response times - Acceptable performance">>
    ELSE <<"Slow response times - Performance optimization needed">>

\* Mutant: the insights are appended in the order rate, time, security.
SimInsightsTimeBeforeSecurity(rs) ==
    SimRateInsight(CountStatus(rs, "PASS"), Len(rs))
        \o SimTimeInsight(rs) \o SimSecurityInsight(rs)

\* The insights list in the order the code appends to it: success rate
\* (228-235), security (238-242), performance (246-251).
SimInsights(rs) ==
    SimRateInsight(CountStatus(rs, "PASS"), Len(rs))
        \o SimSecurityInsight(rs) \o SimTimeInsight(rs)

\* Mutant: the average is taken from the measured suite time.
sim_generate_ai_analytics_AvgFromTotal(rs, total_time) ==
    LET total_tests == Len(rs)
        passed      == CountStatus(rs, "PASS")
        failed      == CountStatus(rs, "FAIL")
    IN  IF total_tests = 0 THEN ZeroDivisionError
        ELSE [ summary |->
                 [ total_tests          |-> total_tests,
                   passed               |-> passed,
                   failed               |-> failed,
                   success_rate         |-> RoundDiv(passed * 10000, total_tests),
                   avg_execution_time   |-> RoundDiv(total_time * 10, total_tests),
                   total_execution_time |-> total_time ],
               category_breakdown |-> Breakdown(rs, "category"),
               risk_analysis      |-> Breakdown(rs, "risk_level"),
               ai_insights        |-> SimInsights(rs) ]

\* SimulatedAILoginTester.generate_ai_analytics: the report, or the exception
\* raised (sum(...) / len(results) at line 245 divides by zero for an empty
\* list).  success_rate is in hundredths of a percent, times in milliseconds.
sim_generate_ai_analytics(rs, total_time) ==
    LET total_tests == Len(rs)
        passed      == CountStatus(rs, "PASS")
        failed      == CountStatus(rs, "FAIL")
    IN  IF total_tests = 0 THEN ZeroDivisionError
        ELSE [ summary |->
                 [ total_tests          |-> total_tests,
                   passed               |-> passed,
                   failed               |-> failed,
                   success_rate         |-> RoundDiv(passed * 10000, total_tests),
                   avg_execution_time   |-> RoundDiv(SumTimes(rs), total_tests),
                   total_execution_time |-> total_time ],
               category_breakdown |-> Breakdown(rs, "category"),
               risk_analysis      |-> Breakdown(rs, "risk_level"),
               ai_insights        |-> SimInsights(rs) ]

-----------------------------------------------------------------------------
(* Inputs                                                                  *)

AllAbsent == [k \in 1..3 |-> "absent"]

Env(step, succ, fail, text1, elapsed) ==
    [step |-> step, succ |-> succ, fail |-> fail, text1 |-> text1,
     elapsed |-> elapsed]

\* Every behaviour of the page driver for a single call: a step before the
\* scans raises, or all steps succeed and the six locators are in any state.
BrowserEnvs ==
    {Env(st, AllAbsent, AllAbsent, "", e) :
        st \in DriverSteps \ {"ok"}, e \in BrowserElapsed}
    \cup
    { e \in [ step    : {"ok"},
              succ    : [1..3 -> IndicatorStates],
              fail    : [1..3 -> IndicatorStates],
              text1   : FailureTexts[1],
              elapsed : BrowserElapsed ] :
        e.fail[1] # "displayed" => e.text1 = "" }

\* The behaviours of the page driver drawn for each test case of a suite run:
\* a fault, a success page, a page showing both kinds of indicator, an error
\* page matched by the second failure locator, and a page showing neither.
SuiteEnvs ==
    { Env("username", AllAbsent, AllAbsent, "", 550),
      Env("ok", <<"displayed", "absent", "absent">>, AllAbsent, "", 200),
      Env("ok", <<"absent", "displayed", "hidden">>,
                <<"displayed", "absent", "absent">>, "Your password is invalid!", 200),
      Env("ok", AllAbsent, <<"hidden", "displayed", "displayed">>, "", 200),
      Env("ok", AllAbsent, AllAbsent, "", 200) }

\* Longest generated credential string
MaxLen == 2

SimChars == {"a", "o", "R", "'", "-", " "}

BoundedStrings(chars, n) == UNION {[1..k -> chars] : k \in 0..n}

RangeOf(f) == {f[i] : i \in DOMAIN f}

SimUsernames ==
    BoundedStrings(SimChars, MaxLen)
    \cup {c.username : c \in RangeOf(generate_intelligent_test_cases)}
    \cup {Repeat("a", 255), Repeat("a", 256)}

SimPasswords ==
    {<<"b">>, <<" ">>, <<"b", " ">>}
    \cup {c.password : c \in RangeOf(generate_intelligent_test_cases)}
    \cup {Repeat("b", 256)}

\* Test cases handed to a single call of simulate_login_attempt
SimTestCases ==
    {[c EXCEPT !.username = u, !.password = p] :
        c \in RangeOf(generate_intelligent_test_cases),
        u \in SimUsernames, p \in SimPasswords}

\* Measured time beyond the sleep, in milliseconds
SimOverhead == {0, 4}

-----------------------------------------------------------------------------
(* main of each script, one action per step                                *)

\* The entries of `calls` for generate_ai_analytics(total_time), with the
\* report it returned or the exception it raised, and for cleanup(), with
\* whether it called self.driver.quit()
AnalyticsCall(total_time, a) ==
    [via |-> "generate_ai_analytics", total_time |-> total_time, report |-> a]
CleanupCall(quit) == [via |-> "cleanup", quit |-> quit]

NumCases == IF runner = "browser" THEN Len(generate_test_cases)
            ELSE Len(generate_intelligent_test_cases)

Init ==
    /\ runner \in {"browser", "simulated"}
    /\ pc = "start"
    /\ driver = None
    /\ test_results = <<>>
    /\ envlog = <<>>
    /\ analytics = NoReport
    /\ ret = "pending"
    /\ idx = 0
    /\ calls = <<>>
    /\ call = None

\* tester = AILoginTester(): __init__ and setup_driver, which catches the
\* exception of webdriver.Chrome and leaves self.driver None
Construct ==
    /\ runner = "browser" /\ pc = "start"
    /\ \E chrome_ok \in BOOLEAN :
          driver' = IF chrome_ok THEN "chrome" ELSE None
    /\ pc' = "suite"
    /\ UNCHANGED <<runner, test_results, envlog, analytics, ret, idx, call, calls>>

\* Mutant: the exception of a faulting test case reaches main, which
\* returns None and cleans up.
RunTestCaseAbortsOnFault ==
    /\ runner = "browser" /\ pc = "suite" /\ idx < NumCases
    /\ \E env \in SuiteEnvs :
          LET r == execute_login_test(driver, generate_test_cases[idx + 1], env)
          IN  /\ test_results' = Append(test_results, r)
              /\ envlog' = Append(envlog, env)
              /\ pc' = IF r.status = "ERROR" THEN "cleanup" ELSE pc
              /\ ret' = IF r.status = "ERROR" THEN None ELSE ret
    /\ idx' = idx + 1
    /\ UNCHANGED <<runner, driver, analytics, call, calls>>

\* Mutant: a test case that ended in ERROR is run again.
RunTestCaseRetries ==
    /\ runner = "browser" /\ pc = "suite" /\ idx < NumCases
    /\ \E env \in SuiteEnvs :
          LET r == execute_login_test(driver, generate_test_cases[idx + 1], env)
          IN  /\ test_results' = Append(test_results, r)
              /\ envlog' = Append(envlog, env)
              /\ idx' = IF r.status = "ERROR" THEN idx ELSE idx + 1
    /\ UNCHANGED <<runner, pc, driver, analytics, ret, call, calls>>

\* Mutant: the new record is put in front of the list.
RunTestCasePrepends ==
    /\ runner = "browser" /\ pc = "suite" /\ idx < NumCases
    /\ \E env \in SuiteEnvs :
          /\ test_results' =
                <<execute_login_test(driver, generate_test_cases[idx + 1], env)>>
                    \o test_results
          /\ envlog' = Append(envlog, env)
    /\ idx' = idx + 1
    /\ UNCHANGED <<runner, pc, driver, analytics, ret, call, calls>>

\* One iteration of the loop of AILoginTester.run_ai_test_suite
RunTestCase ==
    /\ runner = "browser" /\ pc = "suite" /\ idx < NumCases
    /\ \E env \in SuiteEnvs :
          /\ test_results' = Append(test_results,
                               execute_login_test(driver, generate_test_cases[idx + 1], env))
          /\ envlog' = Append(envlog, env)
    /\ idx' = idx + 1
    /\ UNCHANGED <<runner, pc, driver, analytics, ret, call, calls>>

\* The end of AILoginTester.run_ai_test_suite: generate_ai_analytics and the
\* returned dict; an exception goes to main's except clause
FinishSuite ==
    /\ runner = "browser" /\ pc = "suite" /\ idx = NumCases
    /\ LET total_time == SumTimes(test_results) + 100 * NumCases
           a == browser_generate_ai_analytics(test_results, total_time)
       IN  /\ analytics' = IF Raised(a) THEN analytics ELSE a
           /\ pc' = IF Raised(a) THEN "cleanup" ELSE "report"
           /\ ret' = IF Raised(a) THEN None ELSE ret
           /\ calls' = Append(calls, AnalyticsCall(total_time, a))
    /\ UNCHANGED <<runner, driver, test_results, envlog, idx, call>>

\* AILoginTester.generate_report
GenerateReport ==
    /\ runner = "browser" /\ pc = "report"
    /\ pc' = "save"
    /\ UNCHANGED <<runner, driver, test_results, envlog, analytics, ret, idx, call, calls>>

\* AILoginTester.save_results_json, then `return results`
SaveResults ==
    /\ runner = "browser" /\ pc = "save"
    /\ pc' = "cleanup"
    /\ ret' = "results"
    /\ UNCHANGED <<runner, driver, test_results, envlog, analytics, idx, call, calls>>

\* Mutant: cleanup quits the driver without looking at self.driver.
CleanupUnconditional ==
    /\ runner = "browser" /\ pc = "cleanup"
    /\ calls' = Append(calls, CleanupCall(TRUE))
    /\ pc' = "done"
    /\ UNCHANGED <<runner, driver, test_results, envlog, analytics, ret, idx, call>>

\* main's finally clause with a tester: tester.cleanup(), which calls
\* self.driver.quit() when self.driver is not None
Cleanup ==
    /\ runner = "browser" /\ pc = "cleanup"
    /\ calls' = Append(calls, CleanupCall(driver # None))
    /\ pc' = "done"
    /\ UNCHANGED <<runner, driver, test_results, envlog, analytics, ret, idx, call>>

\* tester = SimulatedAILoginTester()
SimConstruct ==
    /\ runner = "simulated" /\ pc = "start"
    /\ pc' = "suite"
    /\ UNCHANGED <<runner, driver, test_results, envlog, analytics, ret, idx, call, calls>>

\* Mutant: the analytics are recomputed after every test case.
SimRunTestCaseAggregatesEach ==
    /\ runner = "simulated" /\ pc = "suite" /\ idx < NumCases
    /\ \E overhead \in SimOverhead :
          LET rs == Append(test_results,
                           simulate_login_attempt(
                               generate_intelligent_test_cases[idx + 1], overhead))
              total_time == RoundDiv(SumTimes(rs), 10)
          IN  /\ test_results' = rs
              /\ envlog' = Append(envlog, overhead)
              /\ calls' = Append(calls,
                             AnalyticsCall(total_time,
                                           sim_generate_ai_analytics(rs, total_time)))
    /\ idx' = idx + 1
    /\ UNCHANGED <<runner, pc, driver, analytics, ret, call>>

\* One iteration of the loop of SimulatedAILoginTester.run_ai_test_suite
SimRunTestCase ==
    /\ runner = "simulated" /\ pc = "suite" /\ idx < NumCases
    /\ \E overhead \in SimOverhead :
          /\ test_results' = Append(test_results,
                               simulate_login_attempt(
                                   generate_intelligent_test_cases[idx + 1], overhead))
          /\ envlog' = Append(envlog, overhead)
    /\ idx' = idx + 1
    /\ UNCHANGED <<runner, pc, driver, analytics, ret, call, calls>>

\* The end of SimulatedAILoginTester.run_ai_test_suite
SimFinishSuite ==
    /\ runner = "simulated" /\ pc = "suite" /\ idx = NumCases
    /\ LET total_time == RoundDiv(SumTimes(test_results), 10)
           a == sim_generate_ai_analytics(test_results, total_time)
       IN  /\ analytics' = IF Raised(a) THEN analytics ELSE a
           /\ pc' = IF Raised(a) THEN "done" ELSE "report"
           /\ ret' = IF Raised(a) THEN None ELSE ret
           /\ calls' = Append(calls, AnalyticsCall(total_time, a))
    /\ UNCHANGED <<runner, driver, test_results, envlog, idx, call>>

\* SimulatedAILoginTester.generate_detailed_report
SimGenerateReport ==
    /\ runner = "simulated" /\ pc = "report"
    /\ pc' = "save"
    /\ UNCHANGED <<runner, driver, test_results, envlog, analytics, ret, idx, call, calls>>

\* SimulatedAILoginTester.export_results, then `return results`
SimExportResults ==
    /\ runner = "simulated" /\ pc = "save"
    /\ pc' = "done"
    /\ ret' = "results"
    /\ UNCHANGED <<runner, driver, test_results, envlog, analytics, idx, call, calls>>

Next ==
    \/ Construct
    \/ RunTestCase
    \/ FinishSuite
    \/ GenerateReport
    \/ SaveResults
    \/ Cleanup
    \/ SimConstruct
    \/ SimRunTestCase
    \/ SimFinishSuite
    \/ SimGenerateReport
    \/ SimExportResults

Spec == Init /\ [][Next]_vars

-----------------------------------------------------------------------------
(* Single calls of the per-test operations on every input                  *)

InitExec ==
    /\ pc = "call"
    /\ test_results = <<>>
    /\ envlog = <<>>
    /\ analytics = NoReport
    /\ ret = "pending"
    /\ idx = 0
    /\ calls = <<>>
    /\ \/ /\ runner = "browser"
          /\ driver \in {None, "chrome"}
          /\ \E tc \in RangeOf(generate_test_cases) :
             \E env \in (IF driver = None THEN SuiteEnvs ELSE BrowserEnvs) :
                call = [test_case |-> tc, env |-> env, result |-> "pending"]
       \/ /\ runner = "simulated"
          /\ driver = None
          /\ \E tc \in SimTestCases : \E overhead \in SimOverhead :
                call = [test_case |-> tc, env |-> overhead, result |-> "pending"]

\* result = tester.execute_login_test(test_case)
ExecCall ==
    /\ runner = "browser" /\ pc = "call"
    /\ call' = [call EXCEPT !.result =
                    execute_login_test(driver, call.test_case, call.env)]
    /\ pc' = "returned"
    /\ UNCHANGED <<runner, driver, test_results, envlog, analytics, ret, idx, calls>>

\* result = tester.simulate_login_attempt(test_case)
SimCall ==
    /\ runner = "simulated" /\ pc = "call"
    /\ call' = [call EXCEPT !.result =
                    simulate_login_attempt(call.test_case, call.env)]
    /\ pc' = "returned"
    /\ UNCHANGED <<runner, driver, test_results, envlog, analytics, ret, idx, calls>>

NextExec == ExecCall \/ SimCall

SpecExec == InitExec /\ [][NextExec]_vars

-----------------------------------------------------------------------------
(* Classifier calls on one tester, directly and through the suite loop     *)

\* Most classifier calls made on one tester
MaxCalls == 3

\* The test cases of the simulated catalog handed to the calls: the valid
\* pair, a wrong password and the injection attempt.
CallCases ==
    { generate_intelligent_test_cases[1],
      generate_intelligent_test_cases[2],
      generate_intelligent_test_cases[4] }

InitCalls ==
    /\ runner \in {"browser", "simulated"}
    /\ pc = "calls"
    /\ driver = IF runner = "browser" THEN "chrome" ELSE None
    /\ test_results = <<>>
    /\ envlog = <<>>
    /\ analytics = NoReport
    /\ ret = "pending"
    /\ idx = 0
    /\ call = None
    /\ calls = <<>>

\* tester.ai_determine_result(test_case)
ClassifyRuleBased ==
    /\ runner = "simulated" /\ pc = "calls" /\ Len(calls) < MaxCalls
    /\ \E tc \in CallCases :
          calls' = Append(calls, [ via   |-> "direct",
                                   input |-> <<tc.username, tc.password>>,
                                   label |-> ai_determine_result(tc) ])
    /\ UNCHANGED <<runner, pc, driver, test_results, envlog, analytics, ret,
                   idx, call>>

\* result = tester.simulate_login_attempt(test_case);
\* tester.test_results.append(result)
SimAppend ==
    /\ runner = "simulated" /\ pc = "calls" /\ Len(calls) < MaxCalls
    /\ \E tc \in CallCases :
          LET r == simulate_login_attempt(tc, 0)
          IN  /\ test_results' = Append(test_results, r)
              /\ calls' = Append(calls, [ via   |-> "suite",
                                          input |-> <<tc.username, tc.password>>,
                                          label |-> r.actual_result ])
    /\ UNCHANGED <<runner, pc, driver, envlog, analytics, ret, idx, call>>

\* tester.execute_login_test(test_case), the result dropped
ClassifyIndicators ==
    /\ runner = "browser" /\ pc = "calls" /\ Len(calls) < MaxCalls
    /\ \E env \in SuiteEnvs :
          calls' = Append(calls,
                     [ via   |-> "direct",
                       input |-> <<env.step, env.succ, env.fail>>,
                       label |-> execute_login_test(
                                     driver, generate_test_cases[1], env).actual_result ])
    /\ UNCHANGED <<runner, pc, driver, test_results, envlog, analytics, ret,
                   idx, call>>

\* result = tester.execute_login_test(test_case);
\* tester.test_results.append(result)
BrowserAppend ==
    /\ runner = "browser" /\ pc = "calls" /\ Len(calls) < MaxCalls
    /\ \E env \in SuiteEnvs :
          LET r == execute_login_test(driver, generate_test_cases[2], env)
          IN  /\ test_results' = Append(test_results, r)
              /\ calls' = Append(calls, [ via   |-> "suite",
                                          input |-> <<env.step, env.succ, env.fail>>,
                                          label |-> r.actual_result ])
    /\ UNCHANGED <<runner, pc, driver, envlog, analytics, ret, idx, call>>

NextCalls ==
    \/ ClassifyRuleBased
    \/ SimAppend
    \/ ClassifyIndicators
    \/ BrowserAppend

SpecCalls == InitCalls /\ [][NextCalls]_vars

-----------------------------------------------------------------------------
(* generate_ai_analytics on every list of outcome records                  *)

\* Longest list of freely chosen records
MaxRecords == 3

\* Longest list of records that differ in status only
MaxLong == 10

\* Most invocations of generate_ai_analytics on one record list
MaxAggCalls == 2

\* A record of the simulated runner for test case tc with the given status
\* and execution time (milliseconds).
SimRecord(tc, status, time) ==
    LET actual == IF status = "PASS" THEN tc.expected
                  ELSE IF tc.expected = "success" THEN "failure" ELSE "success"
    IN  [ simulate_login_attempt(tc, 0) EXCEPT
            !.actual_result  = actual,
            !.status         = status,
            !.execution_time = time,
            !.ai_confidence  = calculate_ai_confidence(tc, actual) ]

\* A record of the browser runner for test case tc with the given status and
\* execution time (hundredths of a second).
BrowserRecord(tc, status, time) ==
    [ InitialResult(tc) EXCEPT
        !.actual_result  = IF status = "PASS" THEN tc.expected_result
                           ELSE IF status = "FAIL" THEN "unknown" ELSE None,
        !.status         = status,
        !.execution_time = time,
        !.error_message  = IF status = "ERROR" THEN FaultMessage("username")
                           ELSE None ]

\* positive/low, security/critical and edge_case/low test cases
SimAggRecords ==
    { SimRecord(generate_intelligent_test_cases[i], st, t) :
        i \in {1, 4, 5}, st \in {"PASS", "FAIL"}, t \in {500, 3000} }

\* a plain and a security-named test case
BrowserAggRecords ==
    { BrowserRecord(generate_test_cases[i], st, t) :
        i \in {2, 5}, st \in {"PASS", "FAIL", "ERROR"}, t \in {200, 550} }

ListsUpTo(records, n) == UNION {[1..k -> records] : k \in 0..n}

\* n records of one test case, the first k with status PASS and the others
\* FAIL, all with execution time t
SimLongLists ==
    { [i \in 1..n |-> SimRecord(generate_intelligent_test_cases[2],
                                 IF i <= k THEN "PASS" ELSE "FAIL", t)] :
        n \in 1..MaxLong, k \in 0..MaxLong, t \in {999, 1000, 2999, 3000} }

BrowserLongLists ==
    { [i \in 1..n |-> BrowserRecord(generate_test_cases[2],
                                     IF i <= k THEN "PASS" ELSE "FAIL", t)] :
        n \in 1..MaxLong, k \in 0..MaxLong, t \in {299, 300, 500, 501} }

InitAgg ==
    /\ runner \in {"browser", "simulated"}
    /\ pc = "agg"
    /\ driver = IF runner = "browser" THEN "chrome" ELSE None
    /\ test_results \in IF runner = "browser"
                        THEN ListsUpTo(BrowserAggRecords, MaxRecords)
                                 \cup BrowserLongLists
                        ELSE ListsUpTo(SimAggRecords, MaxRecords)
                                 \cup SimLongLists
    /\ envlog = <<>>
    /\ analytics = NoReport
    /\ ret = "pending"
    /\ idx = 0
    /\ call = None
    /\ calls = <<>>

\* The wall-clock time of the suite that the caller measures and passes as
\* total_time: the time of the test cases plus what the loop spends outside
\* them (hundredths of a second).
SuiteOverhead == {0, 25}

\* analytics = tester.generate_ai_analytics(total_time), browser runner,
\* called up to MaxAggCalls times on the same list; an exception leaves
\* `analytics` unassigned and is kept in `ret`
Aggregate ==
    /\ runner = "browser" /\ pc \in {"agg", "aggregated"}
    /\ Len(calls) < MaxAggCalls
    /\ \E o \in SuiteOverhead :
          LET total_time == SumTimes(test_results) + 100 * Len(test_results) + o
              a == browser_generate_ai_analytics(test_results, total_time)
          IN  /\ analytics' = IF Raised(a) THEN analytics ELSE a
              /\ ret' = IF Raised(a) THEN a.raised ELSE "returned"
              /\ calls' = Append(calls, AnalyticsCall(total_time, a))
    /\ pc' = "aggregated"
    /\ UNCHANGED <<runner, driver, test_results, envlog, idx, call>>

\* analytics = tester.generate_ai_analytics(total_time), simulated runner
SimAggregate ==
    /\ runner = "simulated" /\ pc \in {"agg", "aggregated"}
    /\ Len(calls) < MaxAggCalls
    /\ \E o \in SuiteOverhead :
          LET total_time == RoundDiv(SumTimes(test_results), 10) + o
              a == sim_generate_ai_analytics(test_results, total_time)
          IN  /\ analytics' = IF Raised(a) THEN analytics ELSE a
              /\ ret' = IF Raised(a) THEN a.raised ELSE "returned"
              /\ calls' = Append(calls, AnalyticsCall(total_time, a))
    /\ pc' = "aggregated"
    /\ UNCHANGED <<runner, driver, test_results, envlog, idx, call>>

NextAgg == Aggregate \/ SimAggregate

SpecAgg == InitAgg /\ [][NextAgg]_vars

-----------------------------------------------------------------------------
(* run_ai_test_suite called again on the same tester object                *)

\* Most calls of run_ai_test_suite on one tester
MaxRuns == 2

\* The page driver of a repeated run: a success page, or, for at most one
\* test case of each run, a fault.
RerunEnvs ==
    LET faulted == \E i \in (Len(calls) * NumCases + 1)..Len(test_results) :
                       test_results[i].status = "ERROR"
    IN  { Env("ok", <<"displayed", "absent", "absent">>, AllAbsent, "", 200) }
        \cup (IF faulted THEN {}
               ELSE { Env("username", AllAbsent, AllAbsent, "", 550) })

\* A constructed tester on which run_ai_test_suite has just been called for
\* the first time
InitRerun ==
    /\ runner \in {"browser", "simulated"}
    /\ pc = "suite"
    /\ driver = IF runner = "browser" THEN "chrome" ELSE None
    /\ test_results = <<>>
    /\ envlog = <<>>
    /\ analytics = NoReport
    /\ ret = "pending"
    /\ idx = 0
    /\ call = None
    /\ calls = <<>>

\* One iteration of the loop of AILoginTester.run_ai_test_suite
RerunTestCase ==
    /\ runner = "browser" /\ pc = "suite" /\ idx < NumCases
    /\ \E env \in RerunEnvs :
          /\ test_results' = Append(test_results,
                               execute_login_test(driver, generate_test_cases[idx + 1], env))
          /\ envlog' = Append(envlog, env)
    /\ idx' = idx + 1
    /\ UNCHANGED <<runner, pc, driver, analytics, ret, call, calls>>

\* One iteration of the loop of SimulatedAILoginTester.run_ai_test_suite
SimRerunTestCase ==
    /\ runner = "simulated" /\ pc = "suite" /\ idx < NumCases
    /\ test_results' = Append(test_results,
                         simulate_login_attempt(
                             generate_intelligent_test_cases[idx + 1], 0))
    /\ envlog' = Append(envlog, 0)
    /\ idx' = idx + 1
    /\ UNCHANGED <<runner, pc, driver, analytics, ret, call, calls>>

\* Mutant: a new run starts from an empty result list.
RunAgainResets ==
    /\ pc = "report"
    /\ Len(calls) < MaxRuns
    /\ pc' = "suite"
    /\ idx' = 0
    /\ test_results' = <<>>
    /\ UNCHANGED <<runner, driver, envlog, analytics, ret, call, calls>>

\* run_ai_test_suite has returned and is called again on the same object:
\* the method builds the catalog and starts its loop; nothing assigns
\* self.test_results
RunAgain ==
    /\ pc = "report"
    /\ Len(calls) < MaxRuns
    /\ pc' = "suite"
    /\ idx' = 0
    /\ UNCHANGED <<runner, driver, test_results, envlog, analytics, ret, call, calls>>

NextRerun ==
    \/ RerunTestCase
    \/ SimRerunTestCase
    \/ FinishSuite
    \/ SimFinishSuite
    \/ RunAgain

SpecRerun == InitRerun /\ [][NextRerun]_vars

-----------------------------------------------------------------------------
(* main of the browser runner when statements outside the per-test try     *)
(* block raise (a print that cannot encode its text, an I/O error)         *)

InitMain ==
    /\ runner = "browser"
    /\ pc = "start"
    /\ driver = None
    /\ test_results = <<>>
    /\ envlog = <<>>
    /\ analytics = NoReport
    /\ ret = "pending"
    /\ idx = 0
    /\ call = None
    /\ calls = <<>>

\* tester = AILoginTester() raises: Options() raises, or a print of
\* setup_driver raises, with or without a driver already stored in the
\* object.  tester stays None, main's except clause returns None and the
\* finally clause skips cleanup.
ConstructRaises ==
    /\ runner = "browser" /\ pc = "start"
    /\ driver' \in {None, "chrome"}
    /\ pc' = "unconstructed"
    /\ ret' = None
    /\ UNCHANGED <<runner, test_results, envlog, analytics, idx, call, calls>>

\* A statement of run_ai_test_suite, generate_report or save_results_json
\* raises an Exception that reaches main's except clause: return None, then
\* the finally clause.
RaiseInMain ==
    /\ runner = "browser" /\ pc \in {"suite", "report", "save"}
    /\ pc' = "cleanup"
    /\ ret' = None
    /\ UNCHANGED <<runner, driver, test_results, envlog, analytics, idx, call, calls>>

NextMain ==
    \/ Construct
    \/ ConstructRaises
    \/ RunTestCase
    \/ FinishSuite
    \/ GenerateReport
    \/ SaveResults
    \/ RaiseInMain
    \/ Cleanup

SpecMain == InitMain /\ [][NextMain]_vars

-----------------------------------------------------------------------------
(* snippets.py: manual_sort and ai_sort                                    *)

\* Longest list that is sorted
MaxSortLen == 4

\* A number as Python holds it: a float is either NaN or has a value.
Num(v) == [nan |-> FALSE, val |-> v]
NaN == [nan |-> TRUE, val |-> 0]

\* The employees of the snippet, and two more: one that ties with others on
\* age and department, one whose age is float('nan').
employees ==
    << [name |-> "Alice",   age |-> Num(30), department |-> "Sales"],
       [name |-> "Bob",     age |-> Num(25), department |-> "Engineering"],
       [name |-> "Charlie", age |-> Num(35), department |-> "Marketing"] >>

SortRecords ==
    RangeOf(employees)
    \cup { [name |-> "Dana", age |-> Num(25), department |-> "Sales"],
           [name |-> "Eve",  age |-> NaN,     department |-> "Marketing"] }

SortKeys == {"age", "name", "department"}

\* The strings of the records in the order of Python's str comparison.
StrOrder ==
    <<"Alice", "Bob", "Charlie", "Dana", "Engineering", "Eve", "Marketing",
      "Sales">>

StrRank(str) == CHOOSE i \in DOMAIN StrOrder : StrOrder[i] = str

\* Mutant: equal keys are swapped too.
KeyGreaterOrEqual(key, a, b) ==
    IF key = "age" THEN ~a.nan /\ ~b.nan /\ a.val >= b.val
    ELSE StrRank(a) >= StrRank(b)

\* a > b on two values of data[.][key]; every comparison with NaN is False
KeyGreater(key, a, b) ==
    IF key = "age" THEN ~a.nan /\ ~b.nan /\ a.val > b.val
    ELSE StrRank(a) > StrRank(b)

\* a < b, the comparison sorted() uses
KeyLess(key, a, b) ==
    IF key = "age" THEN ~a.nan /\ ~b.nan /\ a.val < b.val
    ELSE StrRank(a) < StrRank(b)

\* The inner loop of manual_sort, for j in range(0, n-i-1), from position j
\* (counted from 1) to position last
RECURSIVE InnerLoop(_, _, _, _)
InnerLoop(data, key, j, last) ==
    IF j > last THEN data
    ELSE InnerLoop(IF KeyGreater(key, data[j][key], data[j + 1][key])
                   THEN [data EXCEPT ![j] = data[j + 1], ![j + 1] = data[j]]
                   ELSE data,
                   key, j + 1, last)

\* The outer loop of manual_sort, for i in range(n)
RECURSIVE OuterLoop(_, _, _)
OuterLoop(data, key, i) ==
    IF i >= Len(data) THEN data
    ELSE OuterLoop(InnerLoop(data, key, 1, Len(data) - i - 1), key, i + 1)

\* manual_sort: the contents of the list `data` when it returns `data`
manual_sort(data, key) == OuterLoop(data, key, 0)

\* sorted() on a list shorter than 64 (CPython list.sort): the length of
\* the run the list starts with, strictly descending or non-descending
RECURSIVE ExtendRun(_, _, _, _)
ExtendRun(a, key, i, descending) ==
    IF i > Len(a) THEN Len(a)
    ELSE IF descending = KeyLess(key, a[i][key], a[i - 1][key])
    THEN ExtendRun(a, key, i + 1, descending)
    ELSE i - 1

Reverse(a) == [i \in 1..Len(a) |-> a[Len(a) + 1 - i]]

\* The binary search of the insertion point of pivot in a[l+1..r]
RECURSIVE InsertionPoint(_, _, _, _, _)
InsertionPoint(a, key, pivot, l, r) ==
    IF l >= r THEN l
    ELSE LET p == l + ((r - l) \div 2)
         IN  IF KeyLess(key, pivot[key], a[p + 1][key])
             THEN InsertionPoint(a, key, pivot, l, p)
             ELSE InsertionPoint(a, key, pivot, p + 1, r)

\* Binary insertion of the elements after the first `start` ones
RECURSIVE BinarySort(_, _, _)
BinarySort(a, key, start) ==
    IF start >= Len(a) THEN a
    ELSE LET pivot == a[start + 1]
             l     == InsertionPoint(a, key, pivot, 0, start)
         IN  BinarySort(SubSeq(a, 1, l) \o <<pivot>> \o SubSeq(a, l + 1, start)
                            \o SubSeq(a, start + 2, Len(a)),
                        key, start + 1)

\* ai_sort: the new list that sorted(data, key=lambda x: x[key]) returns
ai_sort(data, key) ==
    IF Len(data) < 2 THEN data
    ELSE LET descending == KeyLess(key, data[2][key], data[1][key])
             run        == ExtendRun(data, key, 3, descending)
             prepared   == IF descending
                           THEN Reverse(SubSeq(data, 1, run))
                                    \o SubSeq(data, run + 1, Len(data))
                           ELSE data
         IN  BinarySort(prepared, key, run)

\* The entry of `calls` for a call of a sort function: what the list object
\* passed as `data` holds afterwards, the list returned, and whether the
\* returned list is the object that was passed.
SortCall(fn, data_after, result, same_object) ==
    [via |-> fn, data_after |-> data_after, result |-> result,
     same_object |-> same_object]

\* A list of records and a key, as in manual_sort(employees.copy(), "age")
InitSort ==
    /\ runner = "snippets"
    /\ pc = "sort"
    /\ driver = None
    /\ test_results = <<>>
    /\ envlog = <<>>
    /\ analytics = NoReport
    /\ ret = "pending"
    /\ idx = 0
    /\ call \in [data : ListsUpTo(SortRecords, MaxSortLen), key : SortKeys]
    /\ calls = <<>>

\* manual_sort(copy of call.data, call.key)
ManualSort ==
    /\ pc = "sort"
    /\ \A k \in DOMAIN calls : calls[k].via # "manual_sort"
    /\ LET sorted == manual_sort(call.data, call.key)
       IN  calls' = Append(calls, SortCall("manual_sort", sorted, sorted, TRUE))
    /\ UNCHANGED <<runner, pc, driver, test_results, envlog, analytics, ret, idx, call>>

\* ai_sort(copy of call.data, call.key)
AiSort ==
    /\ pc = "sort"
    /\ \A k \in DOMAIN calls : calls[k].via # "ai_sort"
    /\ calls' = Append(calls, SortCall("ai_sort", call.data,
                                       ai_sort(call.data, call.key), FALSE))
    /\ UNCHANGED <<runner, pc, driver, test_results, envlog, analytics, ret, idx, call>>

NextSort == ManualSort \/ AiSort

SpecSort == InitSort /\ [][NextSort]_vars

-----------------------------------------------------------------------------
(* Properties                                                              *)

Returned == pc = "returned"
BrowserCall == Returned /\ runner = "browser"
SimCallDone == Returned /\ runner = "simulated"

\* An exception reached the except clause of the browser call in `call`.
CallFaulted ==
    \/ driver = None
    \/ call.env.step # "ok"
    \/ \E k \in 1..3 : /\ call.env.succ[k] = "raises"
                       /\ \A j \in 1..(k - 1) : call.env.succ[j] # "displayed"
    \/ \E k \in 1..3 : /\ call.env.fail[k] = "raises"
                       /\ \A j \in 1..(k - 1) : call.env.fail[j] # "displayed"

SuccessShown == \E k \in 1..3 : call.env.succ[k] = "displayed"
FailureShown == \E k \in 1..3 : call.env.fail[k] = "displayed"

\* The first failure locator, in list order, whose element is displayed.
FirstFailureShown ==
    CHOOSE k \in 1..3 : /\ call.env.fail[k] = "displayed"
                        /\ \A j \in 1..(k - 1) : call.env.fail[j] # "displayed"

Verdicts == {"success", "failure", "unknown"}

\* C1: in both runners the record a per-test operation returns has status
\* PASS if and only if its actual_result equals the test case's expected
\* result and no exception was raised while the test case ran.
C1_PassIffExpectedAndNoFault ==
    /\ BrowserCall =>
          ( call.result.status = "PASS"
            <=> ( call.result.actual_result = call.test_case.expected_result
                  /\ ~CallFaulted ) )
    /\ SimCallDone =>
          ( call.result.status = "PASS"
            <=> call.result.actual_result = call.test_case.expected )

C1_Witness ==
    /\ BrowserCall
    /\ call.test_case.expected_result = "failure"
    /\ call.result.actual_result = "failure"
    /\ call.result.status = "PASS"

\* C2: in the browser runner a record's status is ERROR if and only if an
\* exception was raised while the test case ran, FAIL exactly when none was
\* raised and actual_result differs from the expected result, and always one
\* of PASS, FAIL, ERROR.
C2_StatusErrorIffFault ==
    BrowserCall =>
        /\ call.result.status \in {"PASS", "FAIL", "ERROR"}
        /\ call.result.status = "ERROR" <=> CallFaulted
        /\ call.result.status = "FAIL"
              <=> ( ~CallFaulted
                    /\ call.result.actual_result # call.test_case.expected_result )

C2_Witness ==
    /\ BrowserCall
    /\ driver = "chrome"
    /\ call.env.step = "username"
    /\ call.result.status = "ERROR"

\* C3: when the driver faults during a test case the record has status ERROR
\* and actual_result equal to the label "error", and no classifier verdict.
C3_FaultRecordsErrorLabel ==
    (BrowserCall /\ CallFaulted) =>
        /\ call.result.status = "ERROR"
        /\ call.result.actual_result = "error"
        /\ call.result.actual_result \notin Verdicts

\* C7: when no exception is raised and at least one success indicator is
\* displayed the verdict is success, whatever failure indicators are
\* displayed at the same time.
C7_SuccessPriority ==
    (BrowserCall /\ ~CallFaulted /\ SuccessShown) =>
        call.result.actual_result = "success"

C7_Witness ==
    /\ BrowserCall /\ ~CallFaulted
    /\ SuccessShown /\ FailureShown
    /\ call.result.actual_result = "success"

\* C8: when no success indicator is displayed and a failure indicator is,
\* the verdict is failure and error_message is the text of the first failure
\* indicator in list order that is displayed; absent and hidden indicators
\* are skipped.
C8_FirstFailureIndicatorWins ==
    (BrowserCall /\ ~CallFaulted /\ ~SuccessShown /\ FailureShown) =>
        /\ call.result.actual_result = "failure"
        /\ call.result.error_message = TextOf(call.env, FirstFailureShown)

C8_Witness ==
    /\ BrowserCall /\ ~CallFaulted /\ ~SuccessShown
    /\ call.env.fail = <<"hidden", "displayed", "displayed">>
    /\ call.result.actual_result = "failure"
    /\ call.result.error_message = "Your username is invalid!"

\* C9: when neither a success nor a failure indicator is displayed the
\* verdict is the indeterminate label ("unknown") and the record is a normal
\* outcome with status FAIL, never ERROR and never PASS.
C9_NeitherIsIndeterminate ==
    (BrowserCall /\ ~CallFaulted /\ ~SuccessShown /\ ~FailureShown) =>
        /\ call.result.actual_result = "unknown"
        /\ call.result.status = "FAIL"

C9_Witness ==
    /\ BrowserCall /\ ~CallFaulted
    /\ call.env.succ = <<"absent", "hidden", "absent">>
    /\ call.env.fail = <<"hidden", "absent", "absent">>
    /\ call.result.actual_result = "unknown"
    /\ call.result.status = "FAIL"

\* C10: the rule-based classifier never returns an indeterminate label: the
\* actual_result of every simulated record is success or failure.
C10_RuleBasedNeverIndeterminate ==
    SimCallDone => call.result.actual_result \in {"success", "failure"}

C10_Witness ==
    /\ SimCallDone
    /\ call.test_case.username = <<"a", "a">>
    /\ call.test_case.password = <<"b">>
    /\ call.result.actual_result = "failure"

\* The exception of test case i of the browser suite reached the except
\* clause.
SuiteFaulted(i) ==
    \/ driver = None
    \/ envlog[i].step # "ok"
    \/ \E k \in 1..3 : /\ envlog[i].succ[k] = "raises"
                       /\ \A j \in 1..(k - 1) : envlog[i].succ[j] # "displayed"
    \/ \E k \in 1..3 : /\ envlog[i].fail[k] = "raises"
                       /\ \A j \in 1..(k - 1) : envlog[i].fail[j] # "displayed"

AfterSuite == pc \in {"report", "save", "cleanup", "done"}

\* C4: in the browser suite a faulting test case is recorded as ERROR and
\* the suite proceeds: the run leaves the loop only with one record per
\* test case of the catalog, and every test case that does not fault itself,
\* also after a faulting one, is classified with status PASS or FAIL.
C4_FaultIsolated ==
    runner = "browser" =>
        /\ AfterSuite => Len(test_results) = 6
        /\ \A i \in 1..Len(test_results) :
              IF SuiteFaulted(i)
              THEN test_results[i].status = "ERROR"
              ELSE /\ test_results[i].actual_result \in Verdicts
                   /\ test_results[i].status \in {"PASS", "FAIL"}

C4_Witness ==
    /\ runner = "browser" /\ pc = "done" /\ driver = "chrome"
    /\ Len(test_results) = 6
    /\ test_results[1].status = "ERROR"
    /\ test_results[2].status = "PASS"
    /\ test_results[5].status = "ERROR"
    /\ test_results[6].actual_result = "unknown"

\* C5: if the driver cannot be constructed the run is aborted before any
\* test case is executed: no record and no analytics report is produced and
\* main does not return results.
C5_SetupFaultAbortsRun ==
    (runner = "browser" /\ pc # "start" /\ driver = None) =>
        /\ test_results = <<>>
        /\ analytics = NoReport
        /\ ret # "results"

\* C6: in one suite run on a fresh tester each test case is executed exactly
\* once, in catalog order: the list grows by one record per executed test
\* case, the i-th record belongs to the i-th test case, and a finished run
\* holds exactly one record per test case.
C6_OnceEachInOrder ==
    /\ Len(test_results) = idx
    /\ AfterSuite => Len(test_results) = 6
    /\ \A i \in 1..Len(test_results) :
          IF runner = "browser"
          THEN test_results[i].test_name = generate_test_cases[i].name
          ELSE /\ test_results[i].test_id = i
               /\ test_results[i].test_name = generate_intelligent_test_cases[i].name

C6_Witness ==
    /\ runner = "simulated" /\ pc = "done"
    /\ Len(test_results) = 6
    /\ test_results[6].test_id = 6

\* The configured valid pair, testuser@example.com / ValidPass123!
ConfiguredUsername ==
    <<"t","e","s","t","u","s","e","r","@","e","x","a","m","p","l","e",".","c","o","m">>
ConfiguredPassword ==
    <<"V","a","l","i","d","P","a","s","s","1","2","3","!">>

\* C11: the rule-based classifier returns success exactly when username and
\* password both equal the configured valid pair, and failure for every
\* other input (injection patterns, blank or over-long credentials, and any
\* other non-matching pair).
C11_SuccessIffValidPair ==
    SimCallDone =>
        IF /\ call.test_case.username = ConfiguredUsername
           /\ call.test_case.password = ConfiguredPassword
        THEN call.result.actual_result = "success"
        ELSE call.result.actual_result = "failure"

C11_Witness ==
    /\ SimCallDone
    /\ call.test_case.username = ConfiguredUsername
    /\ call.test_case.password = <<"w","r","o","n","g","p","a","s","s","w","o","r","d">>
    /\ call.result.actual_result = "failure"

-----------------------------------------------------------------------------
(* Properties of generate_ai_analytics                                     *)

Aggregated == pc = "aggregated"
SimReported == Aggregated /\ runner = "simulated" /\ ret = "returned"

PassedOf(rs) == Cardinality({i \in 1..Len(rs) : rs[i].status = "PASS"})

ReportedRate ==
    IF runner = "browser" THEN analytics.success_rate
    ELSE analytics.summary.success_rate

ReportedAverage ==
    IF runner = "browser" THEN analytics.avg_execution_time
    ELSE analytics.summary.avg_execution_time

ReportedTotal ==
    IF runner = "browser" THEN analytics.total_tests
    ELSE analytics.summary.total_tests

\* passed / total x 100 rounded to two decimals, in hundredths of a percent
RateOf(rs) ==
    LET n == PassedOf(rs) * 10000
        q == n \div Len(rs)
    IN  IF 2 * (n % Len(rs)) >= Len(rs) THEN q + 1 ELSE q

\* C13: for every list of outcome records generate_ai_analytics reports a
\* success_rate equal to passed/total x 100 that lies in [0, 100], and 0
\* for the empty list.
C13_SuccessRateReported ==
    Aggregated =>
        /\ ret = "returned"
        /\ ReportedRate \in 0..10000
        /\ ReportedRate = IF test_results = <<>> THEN 0 ELSE RateOf(test_results)

\* C14: called on an empty list generate_ai_analytics returns a report with
\* zero counts and an average execution time of 0, and raises nothing.
C14_AggregatorNeverFails ==
    (Aggregated /\ test_results = <<>>) =>
        /\ ret = "returned"
        /\ ReportedTotal = 0
        /\ ReportedAverage = 0

\* C15: for an empty list the simulated runner's report has total 0,
\* success_rate 0, empty category and risk maps, and only the "review
\* required" insight.
C15_EmptyListReport ==
    (Aggregated /\ runner = "simulated" /\ test_results = <<>>) =>
        /\ ret = "returned"
        /\ analytics.summary.total_tests = 0
        /\ analytics.summary.success_rate = 0
        /\ DOMAIN analytics.category_breakdown = {}
        /\ DOMAIN analytics.risk_analysis = {}
        /\ analytics.ai_insights = <<"Several failures detected - Review required">>

RECURSIVE SumOverLabels(_, _, _)
SumOverLabels(map, labels, field) ==
    IF labels = {} THEN 0
    ELSE LET l == CHOOSE x \in labels : TRUE
         IN  map[l][field] + SumOverLabels(map, labels \ {l}, field)

\* The map `map` is the breakdown of the records by the record field `field`.
IsBreakdown(map, field) ==
    /\ DOMAIN map = {test_results[i][field] : i \in 1..Len(test_results)}
    /\ \A l \in DOMAIN map :
          /\ map[l].total =
                Cardinality({i \in 1..Len(test_results) : test_results[i][field] = l})
          /\ map[l].passed =
                Cardinality({i \in 1..Len(test_results) :
                                /\ test_results[i][field] = l
                                /\ test_results[i].status = "PASS"})
          /\ 1 <= map[l].total
          /\ 0 <= map[l].passed /\ map[l].passed <= map[l].total
    /\ SumOverLabels(map, DOMAIN map, "total") = analytics.summary.total_tests
    /\ SumOverLabels(map, DOMAIN map, "passed") = analytics.summary.passed

\* C16: in the simulated runner's report the category map and the risk map
\* have exactly the labels of the record list, with total and passed counted
\* per label, 1 <= total, 0 <= passed <= total, and sums equal to the
\* report's total_tests and passed.
C16_BreakdownCounts ==
    SimReported =>
        /\ IsBreakdown(analytics.category_breakdown, "category")
        /\ IsBreakdown(analytics.risk_analysis, "risk_level")

C16_Witness ==
    /\ SimReported
    /\ Len(test_results) = 3
    /\ DOMAIN analytics.category_breakdown = {"positive", "edge_case"}
    /\ DOMAIN analytics.risk_analysis = {"low"}
    /\ analytics.category_breakdown["edge_case"] = [total |-> 2, passed |-> 1]
    /\ analytics.risk_analysis["low"] = [total |-> 3, passed |-> 2]

Perfect   == "Perfect execution - All test scenarios handled correctly"
Excellent == "Excellent coverage - High reliability demonstrated"
Good      == "Good performance - Minor issues detected"
Review    == "Several failures detected - Review required"
RateInsights == {Perfect, Excellent, Good, Review}

Validated  == "Security tests passed - Strong input validation"
Vulnerable == "Security vulnerabilities may exist"
SecurityInsights == {Validated, Vulnerable}

FastTimes == "Excellent response times - Optimized performance"
OkTimes   == "Good response times - Acceptable performance"
SlowTimes == "Slow response times - Performance optimization needed"
TimeInsights == {FastTimes, OkTimes, SlowTimes}

\* The positions of the reported insights that belong to the set `kind`.
Positions(kind) ==
    {k \in DOMAIN analytics.ai_insights : analytics.ai_insights[k] \in kind}

\* The one insight of the set `kind`, when Positions(kind) is a singleton.
TheInsight(kind) ==
    analytics.ai_insights[CHOOSE k \in Positions(kind) : TRUE]

\* C17: every report of the simulated runner carries exactly one
\* success-rate insight: perfect at 100, else excellent from 90, else good
\* from 75, else review required.
C17_OneRateInsightByTier ==
    SimReported =>
        LET passed == PassedOf(test_results)
            total  == Len(test_results)
        IN  /\ Cardinality(Positions(RateInsights)) = 1
            /\ TheInsight(RateInsights) =
                  IF passed * 100 = 100 * total THEN Perfect
                  ELSE IF passed * 100 >= 90 * total THEN Excellent
                  ELSE IF passed * 100 >= 75 * total THEN Good
                  ELSE Review

C17_Witness ==
    /\ SimReported
    /\ Len(test_results) = 10
    /\ PassedOf(test_results) = 9
    /\ TheInsight(RateInsights) = Excellent

RECURSIVE TotalTime(_, _)
TotalTime(rs, n) ==
    IF n = 0 THEN 0 ELSE rs[n].execution_time + TotalTime(rs, n - 1)

\* C18: for every non-empty list the simulated runner emits exactly one
\* performance insight: excellent below an average of 1.0 s, acceptable
\* from 1.0 s and below 3.0 s, optimization needed from 3.0 s.
C18_OneTimeInsightByTier ==
    (SimReported /\ test_results # <<>>) =>
        LET sum == TotalTime(test_results, Len(test_results))
            n   == Len(test_results)
        IN  /\ Cardinality(Positions(TimeInsights)) = 1
            /\ TheInsight(TimeInsights) =
                  IF sum < 1000 * n THEN FastTimes
                  ELSE IF sum < 3000 * n THEN OkTimes
                  ELSE SlowTimes

C18_Witness ==
    /\ SimReported
    /\ Len(test_results) = 2
    /\ \A i \in 1..2 : test_results[i].execution_time = 1000
    /\ TheInsight(TimeInsights) = OkTimes

\* C19: the security insight depends on the records of category "security"
\* only: validated when there is one and all have status PASS, possible
\* vulnerability when there is one and not all have status PASS, none when
\* there is no such record; never both.
C19_SecurityInsight ==
    SimReported =>
        LET sec == {i \in 1..Len(test_results) : test_results[i].category = "security"}
            allpass == \A i \in sec : test_results[i].status = "PASS"
        IN  /\ Cardinality(Positions(SecurityInsights)) <= 1
            /\ (sec # {} /\ allpass)
                  => (Positions(SecurityInsights) # {}
                         /\ TheInsight(SecurityInsights) = Validated)
            /\ (sec # {} /\ ~allpass)
                  => (Positions(SecurityInsights) # {}
                         /\ TheInsight(SecurityInsights) = Vulnerable)
            /\ sec = {} => Positions(SecurityInsights) = {}

C19_Witness ==
    /\ SimReported
    /\ Len(test_results) = 3
    /\ test_results[1].category = "security" /\ test_results[1].status = "PASS"
    /\ test_results[2].category = "security" /\ test_results[2].status = "FAIL"
    /\ test_results[3].category = "positive" /\ test_results[3].status = "PASS"
    /\ TheInsight(SecurityInsights) = Vulnerable

\* C20 as stated: in every report the success-rate insight comes first, the
\* execution-time insight second, and the security insight, when emitted,
\* last.
C20_OrderRateTimeSecurity ==
    SimReported =>
        /\ analytics.ai_insights[1] \in RateInsights
        /\ analytics.ai_insights[2] \in TimeInsights
        /\ Positions(SecurityInsights) # {}
              => analytics.ai_insights[Len(analytics.ai_insights)] \in SecurityInsights

\* C20 amended: each rule appends at most one string, in the order success
\* rate, security, execution time: the success-rate insight comes first,
\* the security insight, when emitted, second, and the execution-time
\* insight last.
C20_OrderRateSecurityTime ==
    SimReported =>
        LET ins == analytics.ai_insights
        IN  /\ Len(ins) \in {2, 3}
            /\ ins[1] \in RateInsights
            /\ ins[Len(ins)] \in TimeInsights
            /\ Len(ins) = 3 <=> Positions(SecurityInsights) # {}
            /\ Len(ins) = 3 => ins[2] \in SecurityInsights

C20_Witness ==
    /\ SimReported
    /\ analytics.ai_insights = <<Review, Validated, SlowTimes>>

\* A report with its total-time field blanked.
Timeless(a) ==
    IF runner = "browser" THEN [a EXCEPT !.total_time = 0]
    ELSE [a EXCEPT !.summary.total_execution_time = 0]

TotalTimeOf(a) ==
    IF runner = "browser" THEN a.total_time
    ELSE a.summary.total_execution_time

\* C21 as stated: two invocations of generate_ai_analytics over the same
\* record list return identical reports; no value of the report depends on
\* anything but the list.
C21_ReportDeterminedByList ==
    Aggregated =>
        \A i, j \in DOMAIN calls : calls[i].report = calls[j].report

\* C21 amended: two invocations over the same record list either both raise
\* or return reports that agree in every field, the insight strings and
\* their order included, except the total-time field, which is the
\* total_time argument of the invocation.
C21_ReportDeterminedByListAndTotalTime ==
    Aggregated =>
        \A i, j \in DOMAIN calls :
            LET a == calls[i].report
                b == calls[j].report
            IN  /\ Raised(a) <=> Raised(b)
                /\ ~Raised(a) =>
                      /\ Timeless(a) = Timeless(b)
                      /\ TotalTimeOf(a) = calls[i].total_time

C21_Witness ==
    /\ Aggregated /\ Len(calls) = 2
    /\ Len(test_results) = 3
    /\ ~Raised(calls[1].report) /\ ~Raised(calls[2].report)
    /\ calls[1].total_time # calls[2].total_time
    /\ calls[1].report # calls[2].report
    /\ Timeless(calls[1].report) = Timeless(calls[2].report)

SecurityRecords ==
    {i \in 1..Len(test_results) : test_results[i].category = "security"}

\* Two security records with status PASS and one other record with status
\* FAIL.
TwoSecurityPassOneOtherFail ==
    /\ SimReported
    /\ Len(test_results) = 3
    /\ Cardinality(SecurityRecords) = 2
    /\ \A i \in 1..3 : test_results[i].status =
                          IF i \in SecurityRecords THEN "PASS" ELSE "FAIL"

\* C22: for three records, two of category security with status PASS and
\* one of another category with status FAIL, the simulated runner reports a
\* success_rate of 66.67, the security-validated insight, and the
\* review-required success-rate insight and no higher tier.
C22_TwoOfThreeScenario ==
    TwoSecurityPassOneOtherFail =>
        /\ analytics.summary.success_rate = 6667
        /\ Positions({Validated}) # {}
        /\ Positions({Review}) # {}
        /\ Positions({Perfect, Excellent, Good}) = {}

C22_Witness ==
    /\ TwoSecurityPassOneOtherFail
    /\ test_results[1].category = "positive"
    /\ analytics.summary.passed = 2
    /\ analytics.summary.success_rate = 6667
    /\ analytics.ai_insights[1] = Review
    /\ analytics.ai_insights[2] = Validated

\* C25: the counts of a report partition the records: passed + failed +
\* errors = total_tests in the browser runner, passed + failed = total_tests
\* in the simulated runner, and total_tests is the length of the list.
C25_CountsPartition ==
    (Aggregated /\ ret = "returned") =>
        IF runner = "browser"
        THEN /\ analytics.passed + analytics.failed + analytics.errors
                    = analytics.total_tests
             /\ analytics.total_tests = Len(test_results)
        ELSE /\ analytics.summary.passed + analytics.summary.failed
                    = analytics.summary.total_tests
             /\ analytics.summary.total_tests = Len(test_results)

C25_Witness ==
    /\ Aggregated /\ ret = "returned" /\ runner = "browser"
    /\ analytics.total_tests = 3
    /\ analytics.passed = 1 /\ analytics.failed = 1 /\ analytics.errors = 1

BrowserPerfect   == "Perfect test execution - all scenarios handled correctly"
BrowserGood      == "Good test coverage with high success rate"
BrowserAttention == "Some test scenarios may need attention"
BrowserFast      == "Fast execution times indicate efficient test design"
BrowserSlow      == "Consider optimizing test execution speed"
BrowserSecure    ==
    "Security tests passed - application shows good input validation"

\* The records of the list whose test name contains "injection" or
\* "special" (in any case).
SecurityNamed ==
    {i \in 1..Len(test_results) :
        test_results[i].test_name \in
            {"Invalid Login - SQL Injection Attempt",
             "Invalid Login - Special Characters"}}

\* C28: for a non-empty list the browser runner's insights are exactly one
\* success-rate insight (perfect at 100, good coverage from 80, may need
\* attention below 80), then a performance insight only when the average
\* time is below 3 s (fast) or above 5 s (slow), then the security-passed
\* insight only when a security-named test exists and all of them PASS; a
\* security-named test that does not PASS yields no security insight.
C28_BrowserInsightList ==
    (Aggregated /\ runner = "browser" /\ test_results # <<>>) =>
        LET n      == Len(test_results)
            passed == PassedOf(test_results)
            sum    == TotalTime(test_results, n)
            rate   == IF passed = n THEN BrowserPerfect
                      ELSE IF passed * 100 >= 80 * n THEN BrowserGood
                      ELSE BrowserAttention
            time   == IF sum < 300 * n THEN <<BrowserFast>>
                      ELSE IF sum > 500 * n THEN <<BrowserSlow>>
                      ELSE <<>>
            secure == IF /\ SecurityNamed # {}
                         /\ \A i \in SecurityNamed : test_results[i].status = "PASS"
                      THEN <<BrowserSecure>>
                      ELSE <<>>
        IN  /\ ret = "returned"
            /\ analytics.insights = <<rate>> \o time \o secure

C28_Witness ==
    /\ Aggregated /\ runner = "browser" /\ ret = "returned"
    /\ Len(test_results) = 2
    /\ SecurityNamed = {1}
    /\ test_results[1].status = "FAIL" /\ test_results[2].status = "PASS"
    /\ TotalTime(test_results, 2) = 750
    /\ analytics.insights = <<BrowserAttention>>

\* C23: the result list is append-only: every step leaves test_results
\* unchanged or extends it by exactly one record at the end; no record is
\* modified, reordered or removed, by later test cases, analytics,
\* reporting or export.
C23_AppendOnly ==
    [][ \/ test_results' = test_results
        \/ /\ Len(test_results') = Len(test_results) + 1
           /\ SubSeq(test_results', 1, Len(test_results)) = test_results ]_vars

C23_Witness ==
    /\ runner = "browser" /\ pc = "done" /\ ret = "results"
    /\ analytics # NoReport
    /\ Len(test_results) = 6
    /\ test_results[1].status = "PASS"
    /\ test_results[2].status = "ERROR"
    /\ test_results[6].status = "FAIL"

\* The invocations of generate_ai_analytics so far.
AnalyticsCalls == SelectSeq(calls, LAMBDA c : c.via = "generate_ai_analytics")

\* C24: within one suite run generate_ai_analytics is invoked exactly once
\* and only at the end: never while the loop is running, once when the loop
\* has ended, after the record of the last test case was appended, and its
\* report covers every test case of the catalog.
C24_AggregatorOnceAtEnd ==
    /\ Len(AnalyticsCalls) = IF AfterSuite THEN 1 ELSE 0
    /\ Len(AnalyticsCalls) = 1 =>
          /\ idx = NumCases
          /\ Len(test_results) = NumCases
          /\ ~Raised(AnalyticsCalls[1].report)
          /\ analytics = AnalyticsCalls[1].report
          /\ ReportedTotal = NumCases

C24_Witness ==
    /\ runner = "simulated" /\ pc = "done" /\ ret = "results"
    /\ Len(AnalyticsCalls) = 1
    /\ analytics.summary.total_tests = 6
    /\ Len(test_results) = 6

TotalTestsOf(a) ==
    IF runner = "browser" THEN a.total_tests ELSE a.summary.total_tests

\* C26: test_results is never reset between calls of run_ai_test_suite on
\* one tester: when the k-th run has ended the list holds k x N records, the
\* records of the earlier runs first, and the analytics of the k-th run
\* count the records of all k runs.
C26_RunsAccumulate ==
    /\ Len(test_results) =
          (IF pc = "suite" THEN Len(calls) ELSE Len(calls) - 1) * NumCases + idx
    /\ \A i \in 1..Len(test_results) :
          test_results[i].test_name =
             IF runner = "browser"
             THEN generate_test_cases[((i - 1) % NumCases) + 1].name
             ELSE generate_intelligent_test_cases[((i - 1) % NumCases) + 1].name
    /\ \A k \in DOMAIN calls :
          /\ ~Raised(calls[k].report)
          /\ TotalTestsOf(calls[k].report) = k * NumCases

C26_Witness ==
    /\ runner = "browser" /\ pc = "report"
    /\ Len(calls) = 2
    /\ Len(test_results) = 12
    /\ analytics.total_tests = 12
    /\ test_results[1].status = "ERROR"
    /\ test_results[7].status = "PASS"

\* C27 as stated: the failure scan runs whether or not a success indicator
\* matched, so whenever a failure indicator is displayed the record carries
\* its text as a non-empty error_message, also with verdict success, and
\* error_message is empty only when no failure indicator is displayed and
\* no fault occurred.
C27_ErrorMessageNonEmpty ==
    BrowserCall =>
        /\ (~CallFaulted /\ FailureShown) =>
              /\ call.result.error_message = TextOf(call.env, FirstFailureShown)
              /\ call.result.error_message \notin {None, ""}
        /\ call.result.error_message \in {None, ""} =>
              (~CallFaulted /\ ~FailureShown)

\* C27 amended: the failure scan runs whether or not a success indicator
\* matched, so error_message is the text of the first displayed failure
\* indicator, which may be the empty string, independently of the verdict;
\* error_message stays None exactly when no failure indicator is displayed
\* and no fault occurred, and after a fault it is the exception's message.
C27_ErrorMessageIndependentOfVerdict ==
    BrowserCall =>
        /\ (~CallFaulted /\ FailureShown) =>
              call.result.error_message = TextOf(call.env, FirstFailureShown)
        /\ call.result.error_message = None <=> (~CallFaulted /\ ~FailureShown)

C27_Witness ==
    /\ BrowserCall /\ ~CallFaulted
    /\ SuccessShown /\ FailureShown
    /\ call.result.actual_result = "success"
    /\ call.result.status = "PASS"
    /\ call.result.error_message = "Your password is invalid!"

\* The invocations of cleanup so far.
CleanupCalls == SelectSeq(calls, LAMBDA c : c.via = "cleanup")

\* C29: once main has constructed the tester, cleanup is invoked exactly
\* once on every path out of main, after normal completion and after an
\* exception in the suite run, the report or the export, and it quits the
\* driver only when a driver exists; when the tester could not be
\* constructed cleanup is not invoked and main returns None.
C29_CleanupExactlyOnce ==
    /\ Len(CleanupCalls) = IF pc = "done" THEN 1 ELSE 0
    /\ pc = "done" => ret \in {"results", None}
    /\ pc = "unconstructed" => ret = None
    /\ \A k \in DOMAIN CleanupCalls : CleanupCalls[k].quit <=> driver = "chrome"

C29_Witness ==
    /\ pc = "done" /\ ret = None
    /\ driver = "chrome"
    /\ Len(test_results) = 3
    /\ analytics = NoReport
    /\ CleanupCalls = <<[via |-> "cleanup", quit |-> TRUE]>>

\* The key of record r is not after the key of record q in the order of
\* the key's values.
NotAfter(key, r, q) ==
    IF key = "age"
    THEN ~r.age.nan /\ ~q.age.nan /\ r.age.val <= q.age.val
    ELSE \E i, j \in DOMAIN StrOrder :
            i <= j /\ StrOrder[i] = r[key] /\ StrOrder[j] = q[key]

\* res is the input list in non-decreasing key order with the records of
\* equal key in their input order.
IsStableSortOf(res, inp, key) ==
    /\ Len(res) = Len(inp)
    /\ \A i \in 1..(Len(res) - 1) : NotAfter(key, res[i], res[i + 1])
    /\ \A v \in {inp[i][key] : i \in 1..Len(inp)} :
          SelectSeq(res, LAMBDA r : r[key] = v)
              = SelectSeq(inp, LAMBDA r : r[key] = v)

\* What a call of either sort function must have done.
SortedAsClaimed(c) ==
    /\ IsStableSortOf(c.result, call.data, call.key)
    /\ \A k \in DOMAIN calls : calls[k].result = c.result
    /\ IF c.via = "ai_sort"
       THEN c.data_after = call.data /\ ~c.same_object
       ELSE c.data_after = c.result /\ c.same_object

\* The values of the key are totally ordered: none is NaN.
TotallyOrderedKeys ==
    call.key = "age" => \A i \in 1..Len(call.data) : ~call.data[i].age.nan

\* C30 as stated: for every list of records and key manual_sort and ai_sort
\* return the same sequence, the stable sort of the input by the key;
\* ai_sort leaves its input unchanged and returns a new list, manual_sort
\* reorders its input in place and returns it.
C30_SortsAgree ==
    pc = "sort" => \A k \in DOMAIN calls : SortedAsClaimed(calls[k])

\* C30 amended: the same, for every list whose key values are totally
\* ordered by < and > (no NaN among them).
C30_SortsAgreeOnTotalOrder ==
    (pc = "sort" /\ TotallyOrderedKeys) =>
        \A k \in DOMAIN calls : SortedAsClaimed(calls[k])

C30_Witness ==
    /\ pc = "sort" /\ Len(calls) = 2
    /\ call.key = "age"
    /\ Len(call.data) = 3
    /\ call.data[1].name = "Dana" /\ call.data[2].name = "Alice"
    /\ call.data[3].name = "Bob"
    /\ calls[1].result = <<call.data[1], call.data[3], call.data[2]>>
    /\ calls[2].result = calls[1].result
    /\ \E k \in 1..2 : calls[k].via = "ai_sort" /\ calls[k].data_after = call.data

=============================================================================
